---- MODULE Spec2Model ----
(***************************************************************************)
(* Model of setup.py, the packaging script of the "esl" distribution.      *)
(*                                                                         *)
(* The script is a straight-line program: it opens and reads README.md in  *)
(* text mode inside a with-block, does the same with LICENSE (assigning to *)
(* the same module variable), evaluates find_packages() and calls setup(). *)
(* The working directory is the input: the two files (absent, or present   *)
(* with some bytes) and the directory tree that find_packages() scans.     *)
(***************************************************************************)
EXTENDS Integers, Sequences, FiniteSets, TLC

\* Longest file content, in bytes, that the model enumerates.
MaxLen == 2
\* Number of directories below the working directory.
MaxDirs == 3

\* Bytes a file may hold: a letter, the two line-ending bytes, and a byte
\* that is not valid in the locale encoding.
LF == "LF"
CR == "CR"
BadByte == "xFF"
Bytes == {"a", LF, CR, BadByte}

RECURSIVE SeqsUpTo(_, _)
SeqsUpTo(S, n) ==
    IF n = 0 THEN {<<>>}
    ELSE LET shorter == SeqsUpTo(S, n - 1)
         IN  shorter \cup {Append(s, x) : s \in shorter, x \in S}

\* A file of the working directory: absent, or present with its bytes.
Absent == [exists |-> FALSE, bytes |-> <<>>]
Files == {Absent} \cup {[exists |-> TRUE, bytes |-> b] : b \in SeqsUpTo(Bytes, MaxLen)}

\* The directories below the working directory form a tree: directories 1 and
\* 2 lie in the working directory itself (written 0), and directory d > 2 lies
\* in directory d - 2.
Dirs == 1..MaxDirs
Parent(d) == IF d <= 2 THEN 0 ELSE d - 2

VARIABLES
    readme,            \* README.md in the working directory
    license,           \* LICENSE in the working directory
    initDirs,          \* the directories that hold an __init__.py
    pc,                \* the statement the interpreter is at
    handles,           \* the files whose handle fh is open
    long_description,  \* the module variable of that name
    packages,          \* the value of the argument find_packages()
    error,             \* the exception being propagated, or "none"
    log,               \* the calls made so far, with their outcome
    setup_calls,       \* the keyword arguments of each setup() call
    tool               \* what the packaging tool did with the call

vars == <<readme, license, initDirs, pc, handles, long_description, packages,
          error, log, setup_calls, tool>>

fsvars == <<readme, license, initDirs>>

Unbound == [bound |-> FALSE, value |-> <<>>]
Bound(v) == [bound |-> TRUE, value |-> v]

Call(c, f, ok) == [call |-> c, file |-> f, ok |-> ok]

----------------------------------------------------------------------------
\* fh.read() on a file opened with mode "r".

\* Decoding with the locale encoding succeeds iff every byte is valid.
Decodable(bytes) == \A i \in 1..Len(bytes) : bytes[i] # BadByte

\* Variant: carriage returns are dropped instead of being translated.
RECURSIVE DropCarriageReturns(_)
DropCarriageReturns(s) ==
    IF s = <<>> THEN <<>>
    ELSE IF Head(s) = CR
         THEN DropCarriageReturns(Tail(s))
         ELSE <<Head(s)>> \o DropCarriageReturns(Tail(s))

\* Universal newlines: "\r\n" and a lone "\r" are both returned as "\n".
RECURSIVE TranslateNewlines(_)
TranslateNewlines(s) ==
    IF s = <<>> THEN <<>>
    ELSE IF Head(s) = CR
         THEN IF Len(s) >= 2 /\ s[2] = LF
              THEN <<LF>> \o TranslateNewlines(Tail(Tail(s)))
              ELSE <<LF>> \o TranslateNewlines(Tail(s))
         ELSE <<Head(s)>> \o TranslateNewlines(Tail(s))

\* The string fh.read() returns for a decodable file.
ReadText(f) == TranslateNewlines(f.bytes)

----------------------------------------------------------------------------
\* find_packages(): the directories that hold an __init__.py and whose
\* enclosing directories, up to the working directory, all do too.

RECURSIVE IsPackage(_, _)
IsPackage(d, inits) ==
    IF d = 0 THEN TRUE
    ELSE d \in inits /\ IsPackage(Parent(d), inits)

\* The dotted path of directory d, as the sequence of its components.
RECURSIVE DottedPath(_)
DottedPath(d) == IF d = 0 THEN <<>> ELSE Append(DottedPath(Parent(d)), d)

find_packages(inits) == {DottedPath(d) : d \in {e \in Dirs : IsPackage(e, inits)}}

----------------------------------------------------------------------------
\* The literal keyword arguments of the setup() call.
install_requires ==
    <<"numpy>=1.19.0", "matplotlib>=3.2.2", "scipy>=1.5.1", "tqdm>=4.47.0",
      "flake8>=3.8.3", "black>=19.10b0", "scikit-learn>=0.23.1", "pandas==1.1.0">>

Descriptor(ld, pkgs) ==
    [name |-> "esl",
     version |-> "0.0.1",
     long_description |-> ld,
     long_description_content_type |-> "text/markdown",
     packages |-> pkgs,
     install_requires |-> install_requires,
     license |-> "MIT License",
     python_requires |-> ">=3"]

----------------------------------------------------------------------------
Init ==
    /\ readme \in Files
    /\ license \in Files
    /\ initDirs \in SUBSET Dirs
    /\ pc = "open_readme"
    /\ handles = {}
    /\ long_description = Unbound
    /\ packages = Unbound
    /\ error = "none"
    /\ log = <<>>
    /\ setup_calls = <<>>
    /\ tool = "idle"

\* Variant: a missing README.md is skipped over.
OpenReadme_Swallow ==
    /\ pc = "open_readme"
    /\ IF readme.exists
       THEN /\ handles' = handles \cup {"README.md"}
            /\ log' = Append(log, Call("open", "README.md", TRUE))
            /\ pc' = "read_readme"
       ELSE /\ handles' = handles
            /\ log' = Append(log, Call("open", "README.md", FALSE))
            /\ pc' = "open_license"
    /\ UNCHANGED <<fsvars, long_description, packages, error, setup_calls, tool>>

\* with open("README.md", "r") as fh:
OpenReadme ==
    /\ pc = "open_readme"
    /\ IF readme.exists
       THEN /\ handles' = handles \cup {"README.md"}
            /\ log' = Append(log, Call("open", "README.md", TRUE))
            /\ pc' = "read_readme"
            /\ error' = error
       ELSE /\ handles' = handles
            /\ log' = Append(log, Call("open", "README.md", FALSE))
            /\ pc' = "failed"
            /\ error' = "FileNotFoundError"
    /\ UNCHANGED <<fsvars, long_description, packages, setup_calls, tool>>

\*     long_description = fh.read()
ReadReadme ==
    /\ pc = "read_readme"
    /\ IF Decodable(readme.bytes)
       THEN /\ long_description' = Bound(ReadText(readme))
            /\ log' = Append(log, Call("read", "README.md", TRUE))
            /\ error' = error
       ELSE /\ long_description' = long_description
            /\ log' = Append(log, Call("read", "README.md", FALSE))
            /\ error' = "UnicodeDecodeError"
    /\ pc' = "exit_readme"
    /\ UNCHANGED <<fsvars, handles, packages, setup_calls, tool>>

\* Variant: the README.md handle is left open when the block ends.
ExitReadme_NoClose ==
    /\ pc = "exit_readme"
    /\ log' = Append(log, Call("close", "README.md", FALSE))
    /\ pc' = IF error = "none" THEN "open_license" ELSE "failed"
    /\ UNCHANGED <<fsvars, handles, long_description, packages, error,
                   setup_calls, tool>>

\* Variant: the block suppresses the exception and the script carries on.
ExitReadme_Suppress ==
    /\ pc = "exit_readme"
    /\ handles' = handles \ {"README.md"}
    /\ log' = Append(log, Call("close", "README.md", TRUE))
    /\ error' = "none"
    /\ pc' = "open_license"
    /\ UNCHANGED <<fsvars, long_description, packages, setup_calls, tool>>

\* The end of the first with-block: fh is closed, and an exception raised in
\* the block goes on propagating.
ExitReadme ==
    /\ pc = "exit_readme"
    /\ handles' = handles \ {"README.md"}
    /\ log' = Append(log, Call("close", "README.md", TRUE))
    /\ pc' = IF error = "none" THEN "open_license" ELSE "failed"
    /\ UNCHANGED <<fsvars, long_description, packages, error, setup_calls, tool>>

\* Variant: a missing LICENSE is skipped over and the README text is kept.
OpenLicense_Swallow ==
    /\ pc = "open_license"
    /\ IF license.exists
       THEN /\ handles' = handles \cup {"LICENSE"}
            /\ log' = Append(log, Call("open", "LICENSE", TRUE))
            /\ pc' = "read_license"
       ELSE /\ handles' = handles
            /\ log' = Append(log, Call("open", "LICENSE", FALSE))
            /\ pc' = "find_packages"
    /\ UNCHANGED <<fsvars, long_description, packages, error, setup_calls, tool>>

\* Variant: the open waits for LICENSE to appear instead of raising.
OpenLicense_Wait ==
    /\ pc = "open_license"
    /\ license.exists
    /\ handles' = handles \cup {"LICENSE"}
    /\ log' = Append(log, Call("open", "LICENSE", TRUE))
    /\ pc' = "read_license"
    /\ UNCHANGED <<fsvars, long_description, packages, error, setup_calls, tool>>

\* with open("LICENSE", "r") as fh:
OpenLicense ==
    /\ pc = "open_license"
    /\ IF license.exists
       THEN /\ handles' = handles \cup {"LICENSE"}
            /\ log' = Append(log, Call("open", "LICENSE", TRUE))
            /\ pc' = "read_license"
            /\ error' = error
       ELSE /\ handles' = handles
            /\ log' = Append(log, Call("open", "LICENSE", FALSE))
            /\ pc' = "failed"
            /\ error' = "FileNotFoundError"
    /\ UNCHANGED <<fsvars, long_description, packages, setup_calls, tool>>

\* Variant: the LICENSE text is read but not assigned to long_description.
ReadLicense_Discard ==
    /\ pc = "read_license"
    /\ IF Decodable(license.bytes)
       THEN /\ log' = Append(log, Call("read", "LICENSE", TRUE))
            /\ error' = error
       ELSE /\ log' = Append(log, Call("read", "LICENSE", FALSE))
            /\ error' = "UnicodeDecodeError"
    /\ pc' = "exit_license"
    /\ UNCHANGED <<fsvars, handles, long_description, packages, setup_calls, tool>>

\*     long_description = fh.read()
ReadLicense ==
    /\ pc = "read_license"
    /\ IF Decodable(license.bytes)
       THEN /\ long_description' = Bound(ReadText(license))
            /\ log' = Append(log, Call("read", "LICENSE", TRUE))
            /\ error' = error
       ELSE /\ long_description' = long_description
            /\ log' = Append(log, Call("read", "LICENSE", FALSE))
            /\ error' = "UnicodeDecodeError"
    /\ pc' = "exit_license"
    /\ UNCHANGED <<fsvars, handles, packages, setup_calls, tool>>

\* Variant: the LICENSE handle is closed only when the block ends normally.
ExitLicense_LeakOnError ==
    /\ pc = "exit_license"
    /\ handles' = IF error = "none" THEN handles \ {"LICENSE"} ELSE handles
    /\ log' = Append(log, Call("close", "LICENSE", error = "none"))
    /\ pc' = IF error = "none" THEN "find_packages" ELSE "failed"
    /\ UNCHANGED <<fsvars, long_description, packages, error, setup_calls, tool>>

\* The end of the second with-block.
ExitLicense ==
    /\ pc = "exit_license"
    /\ handles' = handles \ {"LICENSE"}
    /\ log' = Append(log, Call("close", "LICENSE", TRUE))
    /\ pc' = IF error = "none" THEN "find_packages" ELSE "failed"
    /\ UNCHANGED <<fsvars, long_description, packages, error, setup_calls, tool>>

\* Variant: finding no package is treated as an error of the script.
FindPackages_RaiseOnEmpty ==
    /\ pc = "find_packages"
    /\ IF find_packages(initDirs) = {}
       THEN /\ packages' = packages
            /\ log' = Append(log, Call("find_packages", ".", FALSE))
            /\ error' = "ValueError"
            /\ pc' = "failed"
       ELSE /\ packages' = Bound(find_packages(initDirs))
            /\ log' = Append(log, Call("find_packages", ".", TRUE))
            /\ error' = error
            /\ pc' = "call_setup"
    /\ UNCHANGED <<fsvars, handles, long_description, setup_calls, tool>>

\* packages=find_packages(): the argument is evaluated before the call.
FindPackages ==
    /\ pc = "find_packages"
    /\ packages' = Bound(find_packages(initDirs))
    /\ log' = Append(log, Call("find_packages", ".", TRUE))
    /\ pc' = "call_setup"
    /\ UNCHANGED <<fsvars, handles, long_description, error, setup_calls, tool>>

\* Variant: the setup() call is issued a second time.
InvokeSetup_Twice ==
    /\ pc = "call_setup"
    /\ setup_calls' = Append(setup_calls,
                             Descriptor(long_description.value, packages.value))
    /\ log' = Append(log, Call("setup", ".", TRUE))
    /\ \E outcome \in {"built", "tool_error"} : tool' = outcome
    /\ pc' = IF setup_calls = <<>> THEN "call_setup" ELSE "done"
    /\ UNCHANGED <<fsvars, handles, long_description, packages, error>>

\* setup(...): the packaging tool receives the keyword arguments; whether it
\* then builds the distribution or reports an error is the tool's affair.
InvokeSetup ==
    /\ pc = "call_setup"
    /\ setup_calls' = Append(setup_calls,
                             Descriptor(long_description.value, packages.value))
    /\ log' = Append(log, Call("setup", ".", TRUE))
    /\ \E outcome \in {"built", "tool_error"} : tool' = outcome
    /\ pc' = "done"
    /\ UNCHANGED <<fsvars, handles, long_description, packages, error>>

Next ==
    \/ OpenReadme
    \/ ReadReadme
    \/ ExitReadme
    \/ OpenLicense
    \/ ReadLicense
    \/ ExitLicense
    \/ FindPackages
    \/ InvokeSetup

Spec == Init /\ [][Next]_vars

\* The interpreter always executes the next statement.
FairSpec == Spec /\ WF_vars(Next)

----------------------------------------------------------------------------
\* Vocabulary of the properties.

Terminal == pc \in {"done", "failed"}

\* The file can be opened and its bytes decode as text.
Readable(f) == f.exists /\ Decodable(f.bytes)

\* The call was made, whatever its outcome.
Made(c, f) == \E i \in 1..Len(log) : log[i].call = c /\ log[i].file = f

\* The call was made and returned normally.
Succeeded(c, f) == \E i \in 1..Len(log) : log[i] = Call(c, f, TRUE)

HasCR(bytes) == \E i \in 1..Len(bytes) : bytes[i] = CR

\* The calls of a run that gets as far as setup().
FullRun ==
    <<Call("open", "README.md", TRUE), Call("read", "README.md", TRUE),
      Call("close", "README.md", TRUE), Call("open", "LICENSE", TRUE),
      Call("read", "LICENSE", TRUE), Call("close", "LICENSE", TRUE),
      Call("find_packages", ".", TRUE), Call("setup", ".", TRUE)>>

\* The position of a statement in the script.
Rank(p) ==
    CASE p = "open_readme" -> 1
      [] p = "read_readme" -> 2
      [] p = "exit_readme" -> 3
      [] p = "open_license" -> 4
      [] p = "read_license" -> 5
      [] p = "exit_license" -> 6
      [] p = "find_packages" -> 7
      [] p = "call_setup" -> 8
      [] OTHER -> 9

----------------------------------------------------------------------------
\* C1 (as stated): whenever setup() has been called, the long_description it
\* received equals the bytes of LICENSE exactly.
C1_Exact ==
    pc = "done" => setup_calls[1].long_description = license.bytes

\* C1 (amended): whenever setup() has been called, the long_description it
\* received is the content of LICENSE with every "\r\n" and every lone "\r"
\* replaced by "\n" (so it equals LICENSE exactly when LICENSE holds no
\* carriage return), whatever README.md holds.
C1_LicenseWins ==
    pc = "done" =>
        /\ setup_calls[1].long_description = TranslateNewlines(license.bytes)
        /\ ~HasCR(setup_calls[1].long_description)
        /\ ~HasCR(license.bytes) => setup_calls[1].long_description = license.bytes

\* setup() was called after reading a README.md and a LICENSE whose texts
\* differ, the LICENSE holding a carriage return.
C1_Witness ==
    /\ pc = "done"
    /\ HasCR(license.bytes)
    /\ TranslateNewlines(readme.bytes) # TranslateNewlines(license.bytes)
    /\ readme.bytes # <<>>

\* C2 (as stated): whenever README.md and LICENSE both exist, the run ends with
\* setup() called and a non-empty long_description.
C2_AnyContents ==
    (Terminal /\ readme.exists /\ license.exists) =>
        (pc = "done" /\ setup_calls[1].long_description # <<>>)

\* C2 (amended): whenever README.md and LICENSE both exist and decode as text
\* and LICENSE is not empty, the run ends with setup() called and a non-empty
\* long_description.
C2_NonEmpty ==
    (Terminal /\ Readable(readme) /\ Readable(license) /\ license.bytes # <<>>) =>
        (pc = "done" /\ error = "none" /\ setup_calls[1].long_description # <<>>)

\* setup() was called with an empty README.md and a LICENSE made of line
\* endings only.
C2_Witness ==
    /\ pc = "done"
    /\ readme.bytes = <<>>
    /\ license.bytes # <<>>
    /\ \A i \in 1..Len(license.bytes) : license.bytes[i] = CR

\* C3: when README.md is absent the run fails at the first open: the only call
\* ever made is the failed open of README.md, so LICENSE is never opened or
\* read, find_packages() is never called and setup() is never invoked.
C3_ReadmeAbsent ==
    ~readme.exists =>
        /\ pc \in {"open_readme", "failed"}
        /\ ~Made("open", "LICENSE") /\ ~Made("read", "LICENSE")
        /\ ~Made("find_packages", ".") /\ ~packages.bound
        /\ ~Made("setup", ".") /\ setup_calls = <<>>
        /\ Terminal => /\ pc = "failed"
                       /\ error = "FileNotFoundError"
                       /\ log = <<Call("open", "README.md", FALSE)>>

\* The run has failed on a missing README.md although LICENSE exists.
C3_Witness ==
    /\ pc = "failed"
    /\ ~readme.exists
    /\ license.exists

\* C4 (as stated): when LICENSE is absent and README.md is present, setup() is
\* never invoked, and a failed run has read README.md completely and closed it.
C4_ReadmePresent ==
    (~license.exists /\ readme.exists) =>
        /\ setup_calls = <<>>
        /\ pc = "failed" => /\ Succeeded("read", "README.md")
                            /\ Succeeded("close", "README.md")
                            /\ "README.md" \notin handles

\* C4 (amended): when LICENSE is absent and README.md is present and decodes as
\* text, setup() is never invoked, and the run fails at the open of LICENSE,
\* after README.md has been read completely and closed.
C4_LicenseAbsent ==
    (~license.exists /\ Readable(readme)) =>
        /\ setup_calls = <<>>
        /\ ~Made("setup", ".")
        /\ error # "none" => pc = "failed"
        /\ pc = "failed" =>
              /\ error = "FileNotFoundError"
              /\ log = <<Call("open", "README.md", TRUE),
                         Call("read", "README.md", TRUE),
                         Call("close", "README.md", TRUE),
                         Call("open", "LICENSE", FALSE)>>
              /\ long_description = Bound(TranslateNewlines(readme.bytes))
              /\ handles = {}

\* The run has failed on a missing LICENSE with the README.md text in hand.
C4_Witness ==
    /\ pc = "failed"
    /\ ~license.exists
    /\ long_description.bound
    /\ long_description.value # <<>>

\* What C5 says of a single state: a failed call is followed by nothing but
\* the close of the with-block it happened in, no call is made twice, and
\* setup() has not been called once an exception is propagating.
C5_State ==
    /\ \A i \in 1..Len(log) : ~log[i].ok =>
          /\ log[i].call \in {"open", "read"}
          /\ error # "none"
          /\ \A j \in (i + 1)..Len(log) :
                /\ j = i + 1
                /\ log[i].call = "read"
                /\ log[j] = Call("close", log[i].file, TRUE)
    /\ \A i, j \in 1..Len(log) :
          (log[i].call = log[j].call /\ log[i].file = log[j].file) => i = j
    /\ error # "none" =>
          /\ setup_calls = <<>>
          /\ ~packages.bound
          /\ pc \in {"exit_readme", "exit_license", "failed"}
    /\ pc = "failed" => error # "none"

\* C5: every failure of an open or a read ends the run failed, with no
\* recovery: nothing is retried, no later step runs, setup() is not called,
\* and the exception, once raised, is never cleared.
C5_NoRecovery ==
    /\ []C5_State
    /\ [][error # "none" => (error' = error /\ pc' = "failed")]_vars

\* The run has failed on a LICENSE that does not decode, after README.md
\* was read.
C5_Witness ==
    /\ pc = "failed"
    /\ error = "UnicodeDecodeError"
    /\ Succeeded("read", "README.md")
    /\ log[Len(log)] = Call("close", "LICENSE", TRUE)

\* C6: no file handle is open in a terminal state, successful or failed, nor
\* when setup() is about to be or has been invoked.
C6_HandlesReleased ==
    /\ Terminal => handles = {}
    /\ pc = "call_setup" => handles = {}
    /\ setup_calls # <<>> => handles = {}
    /\ Succeeded("close", "README.md") => "README.md" \notin handles
    /\ Succeeded("close", "LICENSE") => "LICENSE" \notin handles

\* The run has failed in the read of a LICENSE that had been opened.
C6_Witness ==
    /\ pc = "failed"
    /\ Succeeded("open", "LICENSE")
    /\ ~Succeeded("read", "LICENSE")
    /\ handles = {}

\* C7: when the working directory holds no importable package, find_packages()
\* returns the empty set without raising, and a run whose two files are
\* readable goes on to call setup() with packages empty; the script itself
\* reports no error.
C7_EmptyDiscovery ==
    (\A d \in Dirs : ~IsPackage(d, initDirs)) =>
        /\ pc = "find_packages" => ENABLED FindPackages
        /\ Made("find_packages", ".") =>
              /\ packages = Bound({})
              /\ error = "none"
              /\ pc \in {"call_setup", "done"}
        /\ (Terminal /\ Readable(readme) /\ Readable(license)) =>
              /\ pc = "done"
              /\ error = "none"
              /\ Len(setup_calls) = 1
              /\ setup_calls[1].packages = {}

\* setup() was called with no package although some directory holds an
\* __init__.py, and the packaging tool reported an error.
C7_Witness ==
    /\ pc = "done"
    /\ initDirs # {}
    /\ setup_calls[1].packages = {}
    /\ tool = "tool_error"

\* What C8 says of a single state: setup() is called at most once, exactly
\* once when the run has ended and both files were readable, and only after
\* the two reads and the package discovery, in that order.
C8_State ==
    /\ Len(setup_calls) <= 1
    /\ (Terminal /\ Readable(readme) /\ Readable(license)) => Len(setup_calls) = 1
    /\ (Terminal /\ ~(Readable(readme) /\ Readable(license))) => setup_calls = <<>>
    /\ Len(setup_calls) = 1 =>
          /\ log = FullRun
          /\ setup_calls[1] = Descriptor(long_description.value, packages.value)
          /\ packages = Bound(find_packages(initDirs))

\* C8: the descriptor is handed to setup() at most once, exactly once when
\* both files are readable, only after the README.md read, the LICENSE read
\* and the package discovery in that order, and it never changes afterwards.
C8_OnceInOrder ==
    /\ []C8_State
    /\ [][setup_calls # <<>> => setup_calls' = setup_calls]_vars

\* setup() was called with a package nested in another one.
C8_Witness ==
    /\ pc = "done"
    /\ Len(setup_calls) = 1
    /\ \E p \in setup_calls[1].packages : Len(p) = 2

C10_OneHandle ==
    /\ Cardinality(handles) <= 1
    /\ Made("open", "LICENSE") =>
          (Succeeded("close", "README.md") /\ "README.md" \notin handles)
    /\ "README.md" \in handles => pc \in {"read_readme", "exit_readme"}
    /\ "LICENSE" \in handles => pc \in {"read_license", "exit_license"}

\* The LICENSE handle is the one open handle.
C10_Witness ==
    /\ handles = {"LICENSE"}
    /\ pc = "read_license"

====
